---- MODULE Spec2Model ----
(***************************************************************************)
(* Model of the text-to-speech React application (App component with the   *)
(* tempo-correction worker): the component's state, the audio worker       *)
(* created by the mount effect, the worker script (importScripts, its      *)
(* onmessage with the chunk loop) and the handlers of the component        *)
(* (handleGenerate, handleClear, triggerDownload, handleModifiedDownload). *)
(*                                                                         *)
(* Tempi are written in tenths (0.5 -> 5, 1.0 -> 10, 2.0 -> 20), the step  *)
(* of the speed slider being 0.1.                                          *)
(***************************************************************************)
EXTENDS Integers, Sequences, FiniteSets, TLC

\* ---------------------------------------------------------------- bounds
MaxJobs == 3          \* invocations of handleModifiedDownload explored
MaxChunks == 2        \* non-empty chunks getSamples returns for one job
MaxSamples == 2       \* samples of an audio handed to the codec
MaxGets == 3          \* calls of source.get within one job

\* ------------------------------------------------------ program constants
TempoMin == 5         \* <input min="0.5">, in tenths
TempoMax == 20        \* <input max="2">, in tenths
TempoOne == 10        \* speakingRate === 1, in tenths

SliderValues == {TempoMin, TempoOne, TempoMax}
SampleRates == {24000, 48000}
TextKinds == {"empty", "valid", "tooLong"}
Chunks == {<<1>>, <<2, 3>>}

Jobs == 1..MaxJobs

\* The message of the worker's initialisation failure belongs to no job.
InitTag == 0

VARIABLES
    phase,                \* "init" (rendered, effects pending) | "mounted" | "unmounted"
    workerRef,            \* workerRef.current: 0 = null, else the worker's number
    workersCreated,       \* number of successful `new Worker(...)`
    text,                 \* kind of the text in the textarea
    speakingRate,         \* slider value, in tenths
    isLoading,
    isProcessingDownload,
    status,               \* [message, type]
    audioUrl,             \* TRUE = non-empty URL
    originalAudioBlob,    \* TRUE = originalAudioBlob.current is a blob
    genPc,                \* "idle" | "awaiting" (callBackendApi pending)
    hmd,                  \* invocations of handleModifiedDownload
    nextJob,
    onmessage,            \* workerRef.current.onmessage: NoHandler, or the closure set
    onerror,              \* workerRef.current.onerror, likewise
    mainQ,                \* messages posted by the worker, not yet dispatched on the main thread
    errEvent,             \* an error event of the worker waits to be dispatched on the main thread
    wState,               \* "none" | "loading" | "ready" | "failed" | "terminated"
    wInbox,               \* messages posted to the worker, not yet dispatched in it
    wpc,                  \* "idle" | "loop"
    wJob,                 \* e.data of the job the worker is processing
    all_processed_data,   \* chunks kept by the chunk loop
    wPosted,              \* per job: the types of the messages the worker posted for it
    handled,              \* worker events handled by a handler of the main thread
    lastDownload,         \* the download triggered last
    call                  \* a function called on its own: its arguments, its position and its results

vars == <<phase, workerRef, workersCreated, text, speakingRate, isLoading,
          isProcessingDownload, status, audioUrl, originalAudioBlob, genPc,
          hmd, nextJob, onmessage, onerror, mainQ, errEvent,
          wState, wInbox, wpc, wJob, all_processed_data, wPosted,
          handled, lastDownload, call>>

compVars == <<text, speakingRate, isLoading, isProcessingDownload, status,
              audioUrl, originalAudioBlob, genPc>>
hmdVars == <<hmd, nextJob, onmessage, onerror>>
workerVars == <<wState, wInbox, wpc, wJob, all_processed_data, wPosted>>
mainQVars == <<mainQ, errEvent, handled>>
lifeVars == <<phase, workerRef, workersCreated>>
appVars == <<lifeVars, compVars, hmdVars, mainQVars, workerVars, lastDownload>>

\* ---------------------------------------------------------------- helpers
Status(m, t) == [message |-> m, type |-> t]
NoStatus == Status("", "")

NoJob == [job |-> 0, tempo |-> 0, sampleRate |-> 0]
NoHmd == [pc |-> "none", tempo |-> 0, target |-> 0]

\* The closures handleModifiedDownload sets as onmessage / onerror keep the
\* invocation's speakingRate and audioBuffer (its sampleRate).
NoHandler == [job |-> 0, tempo |-> 0, sampleRate |-> 0]
NoDownload == [src |-> "none", speed |-> 0, name |-> <<>>, sampleRate |-> 0,
               job |-> 0, msgJob |-> 0, msgTempo |-> 0, msgRate |-> 0]

\* No function of the codec has been called.
NoCall == [fn |-> "none", text |-> "none", pcm |-> <<>>, floats |-> <<>>,
           mime |-> <<>>, rate |-> 0, out |-> <<>>, done |-> FALSE]

RECURSIVE Flatten(_)
\* result.set(chunk, offset) for every chunk, in order
Flatten(chunks) ==
    IF chunks = <<>> THEN <<>>
    ELSE Head(chunks) \o Flatten(Tail(chunks))

\* setState of an unmounted component is ignored
SetIfMounted(new, old) == IF phase = "mounted" THEN new ELSE old

\* ------------------------------------------------------------------- Init
\* The state after the first render: the useState/useRef initial values,
\* the mount effect not yet run.
AppInit ==
    /\ phase = "init"
    /\ workerRef = 0
    /\ workersCreated = 0
    /\ text = "valid"
    /\ speakingRate = TempoOne
    /\ isLoading = FALSE
    /\ isProcessingDownload = FALSE
    /\ status = NoStatus
    /\ audioUrl = FALSE
    /\ originalAudioBlob = FALSE
    /\ genPc = "idle"
    /\ hmd = [j \in Jobs |-> NoHmd]
    /\ nextJob = 1
    /\ onmessage = NoHandler
    /\ onerror = NoHandler
    /\ mainQ = <<>>
    /\ errEvent = FALSE
    /\ wState = "none"
    /\ wInbox = <<>>
    /\ wpc = "idle"
    /\ wJob = NoJob
    /\ all_processed_data = <<>>
    /\ wPosted = [j \in Jobs |-> <<>>]
    /\ handled = {}
    /\ lastDownload = NoDownload

Init ==
    /\ AppInit
    /\ call = NoCall

\* ------------------------------------------------ worker lifecycle effect
\* useEffect(() => { try { workerRef.current = new Worker(...) } ... }, [])
\* with a constructor that succeeds: the worker starts loading its script.
MountEffect ==
    /\ phase = "init"
    /\ phase' = "mounted"
    /\ workersCreated' = workersCreated + 1
    /\ workerRef' = workersCreated + 1
    /\ wState' = "loading"
    /\ UNCHANGED <<compVars, hmdVars, mainQVars, wInbox, wpc, wJob,
                   all_processed_data, wPosted, lastDownload>>
    /\ UNCHANGED call

\* The same effect when `new Worker` (or the Blob / object URL) throws:
\* the catch sets the error status and workerRef.current stays null.
MountEffectThrows ==
    /\ phase = "init"
    /\ phase' = "mounted"
    /\ status' = Status("noInit", "error")
    /\ UNCHANGED <<workerRef, workersCreated, text, speakingRate, isLoading,
                   isProcessingDownload, audioUrl, originalAudioBlob, genPc,
                   hmdVars, mainQVars, workerVars, lastDownload>>
    /\ UNCHANGED call

\* A cleanup that spares a worker that is busy with a job.
Unmount_SparesBusyWorker ==
    /\ phase = "mounted"
    /\ phase' = "unmounted"
    /\ IF workerRef # 0 /\ ~isProcessingDownload
       THEN /\ wState' = "terminated"
            /\ wInbox' = <<>>
            /\ wpc' = "idle"
            /\ wJob' = NoJob
            /\ all_processed_data' = <<>>
            /\ mainQ' = <<>>
            /\ errEvent' = FALSE
       ELSE UNCHANGED <<wState, wInbox, wpc, wJob, all_processed_data,
                        mainQ, errEvent>>
    /\ UNCHANGED <<workerRef, workersCreated, compVars, hmdVars, wPosted,
                   handled, lastDownload>>
    /\ UNCHANGED call

\* The cleanup of the effect: if (workerRef.current) workerRef.current.terminate().
\* terminate() discards the worker's pending tasks and closes its port, so
\* nothing more is dispatched in the worker or from it.
Unmount ==
    /\ phase = "mounted"
    /\ phase' = "unmounted"
    /\ IF workerRef # 0
       THEN /\ wState' = "terminated"
            /\ wInbox' = <<>>
            /\ wpc' = "idle"
            /\ wJob' = NoJob
            /\ all_processed_data' = <<>>
            /\ mainQ' = <<>>
            /\ errEvent' = FALSE
       ELSE UNCHANGED <<wState, wInbox, wpc, wJob, all_processed_data,
                        mainQ, errEvent>>
    /\ UNCHANGED <<workerRef, workersCreated, compVars, hmdVars, wPosted,
                   handled, lastDownload>>
    /\ UNCHANGED call

\* ---------------------------------------------------------- worker script
\* A message the worker posts. The worker's messages carry no job identity:
\* job, tempo and sampleRate record the job whose processing posted the
\* message (InitTag and zeros for the message of the top-level catch) and
\* are read by the properties only, never by a handler.
WorkerMessage(type, e, data) ==
    [type |-> type, job |-> e.job, tempo |-> e.tempo,
     sampleRate |-> e.sampleRate, data |-> data]

\* importScripts succeeded: the script goes on and sets self.onmessage.
ImportScriptsOk ==
    /\ wState = "loading"
    /\ wState' = "ready"
    /\ UNCHANGED <<lifeVars, compVars, hmdVars, mainQVars, wInbox, wpc, wJob,
                   all_processed_data, wPosted, lastDownload>>
    /\ UNCHANGED call

\* importScripts threw: the catch posts { error } and rethrows; the uncaught
\* exception ends the script before self.onmessage is set and is reported
\* to the Worker object as an error event.
ImportScriptsFail ==
    /\ wState = "loading"
    /\ wState' = "failed"
    /\ mainQ' = Append(mainQ, WorkerMessage("error", NoJob, <<>>))
    /\ errEvent' = TRUE
    /\ UNCHANGED <<lifeVars, compVars, hmdVars, handled, wInbox, wpc,
                   wJob, all_processed_data, wPosted, lastDownload>>
    /\ UNCHANGED call

\* A message posted to the worker is dispatched in it. A worker whose script
\* failed has no onmessage: the event has no listener and the job is lost.
\* Otherwise self.onmessage starts: it builds source and pipeSource and
\* enters the try block, where `new self.SoundTouch.P(pipeSource)` either
\* throws (caught: one { error } is posted) or the chunk loop starts.
SelfOnMessage ==
    /\ wState \in {"ready", "failed"}
    /\ wpc = "idle"
    /\ wInbox # <<>>
    /\ wInbox' = Tail(wInbox)
    /\ LET e == Head(wInbox) IN
       IF wState = "failed"
       THEN UNCHANGED <<wpc, wJob, all_processed_data, wPosted, mainQ>>
       ELSE \/ /\ wpc' = "loop"
               /\ wJob' = e
               /\ all_processed_data' = <<>>
               /\ UNCHANGED <<wPosted, mainQ>>
            \/ /\ mainQ' = Append(mainQ, WorkerMessage("error", e, <<>>))
               /\ wPosted' = [wPosted EXCEPT ![e.job] = Append(@, "error")]
               /\ UNCHANGED <<wpc, wJob, all_processed_data>>
    /\ UNCHANGED <<lifeVars, compVars, hmdVars, wState, errEvent,
                   handled, lastDownload>>
    /\ UNCHANGED call

\* A chunk loop that streams: every chunk is posted as soon as it is pushed.
GetSamplesChunk_Streams ==
    /\ wpc = "loop"
    /\ Len(all_processed_data) < MaxChunks
    /\ \E c \in Chunks :
          /\ all_processed_data' = Append(all_processed_data, c)
          /\ mainQ' = Append(mainQ, WorkerMessage("result", wJob, c))
    /\ wPosted' = [wPosted EXCEPT ![wJob.job] = Append(@, "result")]
    /\ UNCHANGED <<lifeVars, compVars, hmdVars, errEvent, handled, wState,
                   wInbox, wpc, wJob, lastDownload>>
    /\ UNCHANGED call

\* One turn of the do-while in which getSamples returns a chunk whose first
\* channel is non-empty: the first channel is pushed and the loop goes on.
GetSamplesChunk ==
    /\ wpc = "loop"
    /\ Len(all_processed_data) < MaxChunks
    /\ \E c \in Chunks : all_processed_data' = Append(all_processed_data, c)
    /\ UNCHANGED <<lifeVars, compVars, hmdVars, mainQVars, wState, wInbox, wpc,
                   wJob, wPosted, lastDownload>>
    /\ UNCHANGED call

\* The turn in which getSamples returns nothing (or an empty first channel):
\* the loop ends, the chunks are concatenated and { result } is posted.
GetSamplesEnd ==
    /\ wpc = "loop"
    /\ mainQ' = Append(mainQ, WorkerMessage("result", wJob,
                                            Flatten(all_processed_data)))
    /\ wPosted' = [wPosted EXCEPT ![wJob.job] = Append(@, "result")]
    /\ wpc' = "idle"
    /\ wJob' = NoJob
    /\ all_processed_data' = <<>>
    /\ UNCHANGED <<lifeVars, compVars, hmdVars, wState, wInbox,
                   errEvent, handled, lastDownload>>
    /\ UNCHANGED call

\* A catch that posts { error } and then rethrows or closes the worker: the
\* worker answers no later job.
GetSamplesThrows_ClosesWorker ==
    /\ wpc = "loop"
    /\ mainQ' = Append(mainQ, WorkerMessage("error", wJob, <<>>))
    /\ wPosted' = [wPosted EXCEPT ![wJob.job] = Append(@, "error")]
    /\ wpc' = "idle"
    /\ wJob' = NoJob
    /\ all_processed_data' = <<>>
    /\ wState' = "failed"
    /\ UNCHANGED <<lifeVars, compVars, hmdVars, wInbox,
                   errEvent, handled, lastDownload>>
    /\ UNCHANGED call

\* The turn in which getSamples throws: the catch posts { error } and the
\* handler returns; self.onmessage stays installed.
GetSamplesThrows ==
    /\ wpc = "loop"
    /\ mainQ' = Append(mainQ, WorkerMessage("error", wJob, <<>>))
    /\ wPosted' = [wPosted EXCEPT ![wJob.job] = Append(@, "error")]
    /\ wpc' = "idle"
    /\ wJob' = NoJob
    /\ all_processed_data' = <<>>
    /\ UNCHANGED <<lifeVars, compVars, hmdVars, wState, wInbox,
                   errEvent, handled, lastDownload>>
    /\ UNCHANGED call

\* ------------------------------------------------------------- the form
\* onChange of the textarea
SetText(k) ==
    /\ phase = "mounted"
    /\ text # k
    /\ text' = k
    /\ UNCHANGED <<lifeVars, speakingRate, isLoading, isProcessingDownload,
                   status, audioUrl, originalAudioBlob, genPc,
                   hmdVars, mainQVars, workerVars, lastDownload>>
    /\ UNCHANGED call

\* onChange of the speed slider
SetSpeakingRate(r) ==
    /\ phase = "mounted"
    /\ speakingRate # r
    /\ speakingRate' = r
    /\ UNCHANGED <<lifeVars, text, isLoading, isProcessingDownload, status,
                   audioUrl, originalAudioBlob, genPc, hmdVars,
                   mainQVars, workerVars, lastDownload>>
    /\ UNCHANGED call

\* A handleClear that also cancels: it detaches the handlers of the worker.
HandleClear_Detaches ==
    /\ phase = "mounted"
    /\ text' = "empty"
    /\ audioUrl' = FALSE
    /\ originalAudioBlob' = FALSE
    /\ status' = NoStatus
    /\ onmessage' = NoHandler
    /\ onerror' = NoHandler
    /\ UNCHANGED <<lifeVars, speakingRate, isLoading, isProcessingDownload,
                   genPc, hmd, nextJob, mainQVars, workerVars, lastDownload>>
    /\ UNCHANGED call

\* handleClear
HandleClear ==
    /\ phase = "mounted"
    /\ text' = "empty"
    /\ audioUrl' = FALSE
    /\ originalAudioBlob' = FALSE
    /\ status' = NoStatus
    /\ UNCHANGED <<lifeVars, speakingRate, isLoading, isProcessingDownload,
                   genPc, hmdVars, mainQVars, workerVars, lastDownload>>
    /\ UNCHANGED call

\* ------------------------------------------------------------ generation
\* A handleGenerate that clears the previous audio before it looks at the
\* text.
handleGenerate_ClearsFirst ==
    /\ audioUrl' = FALSE
    /\ originalAudioBlob' = FALSE
    /\ IF text # "valid"
       THEN /\ status' = Status("invalidText", "error")
            /\ UNCHANGED <<isLoading, genPc>>
       ELSE /\ isLoading' = TRUE
            /\ status' = NoStatus
            /\ genPc' = "awaiting"
    /\ UNCHANGED <<lifeVars, text, speakingRate, isProcessingDownload, hmdVars,
                   mainQVars, workerVars, lastDownload>>

\* handleGenerate up to its await. Invalid text (!text.trim() ||
\* text.length > MAX_CHARS): error status and return.
handleGenerate ==
    /\ IF text # "valid"
       THEN /\ status' = Status("invalidText", "error")
            /\ UNCHANGED <<isLoading, audioUrl, originalAudioBlob, genPc>>
       ELSE /\ isLoading' = TRUE
            /\ status' = NoStatus
            /\ audioUrl' = FALSE
            /\ originalAudioBlob' = FALSE
            /\ genPc' = "awaiting"
    /\ UNCHANGED <<lifeVars, text, speakingRate, isProcessingDownload, hmdVars,
                   mainQVars, workerVars, lastDownload>>

\* Click on the generate button (enabled unless isLoading ||
\* isProcessingDownload || text.length > MAX_CHARS): handleGenerate runs.
HandleGenerate ==
    /\ phase = "mounted"
    /\ ~(isLoading \/ isProcessingDownload \/ text = "tooLong")
    /\ handleGenerate
    /\ UNCHANGED call

\* handleGenerate called as a function, whatever the button's disabled
\* attribute says, with no generation pending; the call is noted with the
\* text it found.
CallHandleGenerate ==
    /\ phase = "mounted"
    /\ genPc = "idle"
    /\ handleGenerate
    /\ call' = [NoCall EXCEPT !.fn = "handleGenerate", !.text = text]

\* callBackendApi settles and handleGenerate runs to its end:
\*   "audio"   a result with audioData: the WAV blob is stored and shown;
\*   "noAudio" a result without audioData: the if is skipped;
\*   "throws"  fetch / response.json() / !response.ok: the catch.
\* finally: setIsLoading(false).
GenerateSettled(outcome) ==
    /\ genPc = "awaiting"
    /\ genPc' = "idle"
    /\ isLoading' = SetIfMounted(FALSE, isLoading)
    /\ CASE outcome = "audio" ->
              /\ originalAudioBlob' = TRUE
              /\ audioUrl' = SetIfMounted(TRUE, audioUrl)
              /\ status' = SetIfMounted(Status("generated", "success"), status)
         [] outcome = "noAudio" ->
              UNCHANGED <<originalAudioBlob, audioUrl, status>>
         [] outcome = "throws" ->
              /\ status' = SetIfMounted(Status("generateError", "error"), status)
              /\ UNCHANGED <<originalAudioBlob, audioUrl>>
    /\ UNCHANGED <<lifeVars, text, speakingRate, isProcessingDownload,
                   hmdVars, mainQVars, workerVars, lastDownload>>
    /\ UNCHANGED call

\* -------------------------------------------------------------- downloads
\* speed.toFixed(1) of a speed given in tenths: the integer part, the point
\* and one decimal digit.
toFixed1(speed) == <<speed \div 10, ".", speed % 10>>

\* a.download = `audio-HQ-${speed.toFixed(1)}x.wav`
FileName(speed) == <<"audio-HQ-">> \o toFixed1(speed) \o <<"x.wav">>

\* triggerDownload(blob, speed): the file is named after speed. blob is
\* described by where it comes from (src), the closure that built it (job)
\* and its sample rate; msgJob, msgTempo, msgRate describe the worker
\* message the blob was rebuilt from.
triggerDownload(src, speed, h, e) ==
    [src |-> src, speed |-> speed, name |-> FileName(speed),
     sampleRate |-> h.sampleRate, job |-> h.job,
     msgJob |-> e.job, msgTempo |-> e.tempo, msgRate |-> e.sampleRate]

\* Click on "Original (1.0x)" (rendered when audioUrl, disabled while
\* isProcessingDownload): triggerDownload(originalAudioBlob.current, 1.0).
DownloadOriginal ==
    /\ phase = "mounted"
    /\ audioUrl
    /\ ~isProcessingDownload
    /\ lastDownload' = triggerDownload(IF originalAudioBlob THEN "original" ELSE "null",
                                       TempoOne, NoHandler, NoJob)
    /\ UNCHANGED <<lifeVars, compVars, hmdVars, mainQVars, workerVars>>
    /\ UNCHANGED call

\* A corrected-download button that stays enabled at speakingRate 1.
HandleModifiedDownload_AtAnyRate ==
    /\ phase = "mounted"
    /\ audioUrl
    /\ ~(isProcessingDownload \/ workerRef = 0)
    /\ nextJob <= MaxJobs
    /\ IF ~originalAudioBlob \/ workerRef = 0
       THEN /\ status' = Status("notReady", "error")
            /\ UNCHANGED <<isProcessingDownload, hmd, nextJob>>
       ELSE /\ isProcessingDownload' = TRUE
            /\ status' = Status("processing", "info")
            /\ hmd' = [hmd EXCEPT ![nextJob] =
                          [pc |-> "decoding", tempo |-> speakingRate, target |-> 0]]
            /\ nextJob' = nextJob + 1
    /\ UNCHANGED <<lifeVars, text, speakingRate, isLoading, audioUrl,
                   originalAudioBlob, genPc, onmessage, onerror,
                   mainQVars, workerVars, lastDownload>>
    /\ UNCHANGED call

\* Click on the corrected-download button (rendered when audioUrl, disabled
\* when isProcessingDownload || speakingRate === 1 || !workerRef.current):
\* handleModifiedDownload up to its first await. speakingRate is the value
\* of the render whose closure the click runs.
HandleModifiedDownload ==
    /\ phase = "mounted"
    /\ audioUrl
    /\ ~(isProcessingDownload \/ speakingRate = TempoOne \/ workerRef = 0)
    /\ nextJob <= MaxJobs
    /\ IF ~originalAudioBlob \/ workerRef = 0
       THEN /\ status' = Status("notReady", "error")
            /\ UNCHANGED <<isProcessingDownload, hmd, nextJob>>
       ELSE /\ isProcessingDownload' = TRUE
            /\ status' = Status("processing", "info")
            /\ hmd' = [hmd EXCEPT ![nextJob] =
                          [pc |-> "decoding", tempo |-> speakingRate, target |-> 0]]
            /\ nextJob' = nextJob + 1
    /\ UNCHANGED <<lifeVars, text, speakingRate, isLoading, audioUrl,
                   originalAudioBlob, genPc, onmessage, onerror,
                   mainQVars, workerVars, lastDownload>>
    /\ UNCHANGED call

\* arrayBuffer() and decodeAudioData resolved for invocation j: the job is
\* posted to workerRef.current and then onmessage / onerror of the worker
\* are replaced by the closures of this invocation. A terminated worker
\* takes no message.
DecodeResolved(j, rate) ==
    /\ hmd[j].pc = "decoding"
    /\ hmd' = [hmd EXCEPT ![j] = [pc |-> "posted", tempo |-> 0, target |-> workerRef]]
    /\ wInbox' = IF wState \in {"loading", "ready", "failed"}
                 THEN Append(wInbox, [job |-> j, tempo |-> hmd[j].tempo,
                                      sampleRate |-> rate])
                 ELSE wInbox
    /\ onmessage' = [job |-> j, tempo |-> hmd[j].tempo, sampleRate |-> rate]
    /\ onerror' = [job |-> j, tempo |-> hmd[j].tempo, sampleRate |-> rate]
    /\ UNCHANGED <<lifeVars, compVars, nextJob, mainQVars, wState, wpc, wJob,
                   all_processed_data, wPosted, lastDownload>>
    /\ UNCHANGED call

\* new AudioContext, arrayBuffer() or decodeAudioData failed for invocation
\* j: the catch of handleModifiedDownload.
DecodeRejected(j) ==
    /\ hmd[j].pc = "decoding"
    /\ hmd' = [hmd EXCEPT ![j] = [pc |-> "failed", tempo |-> 0, target |-> 0]]
    /\ status' = SetIfMounted(Status("prepareError", "error"), status)
    /\ isProcessingDownload' = SetIfMounted(FALSE, isProcessingDownload)
    /\ UNCHANGED <<lifeVars, text, speakingRate, isLoading, audioUrl,
                   originalAudioBlob, genPc, nextJob, onmessage,
                   onerror, mainQVars, workerVars, lastDownload>>
    /\ UNCHANGED call

\* An error branch that falls back: it downloads the unstretched original.
OnMessageError_FallsBack(h, e) ==
    /\ status' = Status("processingError", "error")
    /\ isProcessingDownload' = FALSE
    /\ handled' = handled \cup {[h |-> h.job, m |-> e.job, kind |-> "error"]}
    /\ lastDownload' = triggerDownload("original", h.tempo, h, e)

\* The closure set as workerRef.current.onmessage, run on message e:
\* the error branch (if (e.data.error) ...; return)
OnMessageError(h, e) ==
    /\ status' = Status("processingError", "error")
    /\ isProcessingDownload' = FALSE
    /\ handled' = handled \cup {[h |-> h.job, m |-> e.job, kind |-> "error"]}
    /\ UNCHANGED lastDownload

\* A success branch that names the file after the slider's present value.
OnMessageResult_PresentRate(h, e) ==
    /\ lastDownload' = triggerDownload("processed", speakingRate, h, e)
    /\ status' = Status("downloadStarted", "success")
    /\ isProcessingDownload' = FALSE
    /\ handled' = handled \cup {[h |-> h.job, m |-> e.job, kind |-> "result"]}

\* and the success branch: the audio is rebuilt at audioBuffer.sampleRate
\* and downloaded under speakingRate, both of the closure.
OnMessageResult(h, e) ==
    /\ lastDownload' = triggerDownload("processed", h.tempo, h, e)
    /\ status' = Status("downloadStarted", "success")
    /\ isProcessingDownload' = FALSE
    /\ handled' = handled \cup {[h |-> h.job, m |-> e.job, kind |-> "result"]}

\* A message of the worker is dispatched on the main thread. With no
\* onmessage set the event has no listener.
WorkerOnMessage ==
    /\ phase = "mounted"
    /\ mainQ # <<>>
    /\ mainQ' = Tail(mainQ)
    /\ LET e == Head(mainQ) IN
       IF onmessage = NoHandler
       THEN UNCHANGED <<status, isProcessingDownload, handled, lastDownload>>
       ELSE IF e.type = "error"
            THEN OnMessageError(onmessage, e)
            ELSE OnMessageResult(onmessage, e)
    /\ UNCHANGED <<lifeVars, text, speakingRate, isLoading, audioUrl,
                   originalAudioBlob, genPc, hmdVars, errEvent, workerVars>>
    /\ UNCHANGED call

\* The error event of the worker is dispatched on the main thread: the
\* closure set as workerRef.current.onerror, if any.
WorkerOnError ==
    /\ phase = "mounted"
    /\ errEvent
    /\ errEvent' = FALSE
    /\ IF onerror = NoHandler
       THEN UNCHANGED <<status, isProcessingDownload, handled>>
       ELSE /\ status' = Status("workerError", "error")
            /\ isProcessingDownload' = FALSE
            /\ handled' = handled \cup
                   {[h |-> onerror.job, m |-> InitTag, kind |-> "onerror"]}
    /\ UNCHANGED <<lifeVars, text, speakingRate, isLoading, audioUrl,
                   originalAudioBlob, genPc, hmdVars, mainQ,
                   workerVars, lastDownload>>
    /\ UNCHANGED call

\* ------------------------------------------------------------------- Next
Next ==
    \/ MountEffect
    \/ MountEffectThrows
    \/ Unmount
    \/ ImportScriptsOk
    \/ ImportScriptsFail
    \/ SelfOnMessage
    \/ GetSamplesChunk
    \/ GetSamplesEnd
    \/ GetSamplesThrows
    \/ \E k \in TextKinds : SetText(k)
    \/ \E r \in SliderValues : SetSpeakingRate(r)
    \/ HandleClear
    \/ HandleGenerate
    \/ \E o \in {"audio", "noAudio", "throws"} : GenerateSettled(o)
    \/ DownloadOriginal
    \/ HandleModifiedDownload
    \/ \E j \in Jobs, rate \in SampleRates : DecodeResolved(j, rate)
    \/ \E j \in Jobs : DecodeRejected(j)
    \/ WorkerOnMessage
    \/ WorkerOnError

Spec == Init /\ [][Next]_vars

\* The form with handleGenerate called as a function.
CallNext ==
    \/ MountEffect
    \/ MountEffectThrows
    \/ \E k \in TextKinds : SetText(k)
    \/ \E r \in SliderValues : SetSpeakingRate(r)
    \/ HandleClear
    \/ CallHandleGenerate
    \/ \E o \in {"audio", "noAudio", "throws"} : GenerateSettled(o)
    \/ DownloadOriginal

CallSpec == Init /\ [][CallNext]_vars

TypeOK ==
    /\ phase \in {"init", "mounted", "unmounted"}
    /\ workerRef \in 0..1
    /\ isProcessingDownload \in BOOLEAN
    /\ wState \in {"none", "loading", "ready", "failed", "terminated"}

\* ------------------------------------------------------------ the WAV codec
\* Bytes are 0..255; a DataView over a fresh ArrayBuffer is a sequence of
\* zero bytes, and offset o of the view is element o + 1 of the sequence.
NewView(length) == [i \in 1..length |-> 0]

\* The bytes view.setUint16 / setUint32 / setInt16 store for v,
\* little-endian: v modulo 2^16, 2^32 (two's complement below zero).
Uint16LE(v) == <<v % 256, (v \div 256) % 256>>
Uint32LE(v) == <<v % 256, (v \div 256) % 256, (v \div 65536) % 256,
                 (v \div 16777216) % 256>>

\* A setInt16 that stores the high byte first.
Int16LE_BigEndian(v) == <<(v \div 256) % 256, v % 256>>

Int16LE(v) == <<v % 256, (v \div 256) % 256>>

\* The view after `bytes` were stored from `offset` on.
Store(view, offset, bytes) ==
    [i \in 1..Len(view) |->
        IF i \in (offset + 1)..(offset + Len(bytes))
        THEN bytes[i - offset] ELSE view[i]]

\* charCodeAt of the four chunk tags
RIFF == <<82, 73, 70, 70>>
WAVE == <<87, 65, 86, 69>>
FMT == <<102, 109, 116, 32>>
DATA == <<100, 97, 116, 97>>

\* writeString(view, offset, string)
writeString(view, offset, string) == Store(view, offset, string)

RECURSIVE PcmLoop(_, _, _)
\* for (i = 0; i < numSamples; i++) view.setInt16(44 + i * 2, pcmData[i], true)
PcmLoop(view, pcmData, i) ==
    IF i < Len(pcmData)
    THEN PcmLoop(Store(view, 44 + i * 2, Int16LE(pcmData[i + 1])), pcmData, i + 1)
    ELSE view

\* A pcmToWav whose data-size field counts samples instead of bytes.
pcmToWav_CountsSamples(pcmData, sampleRate) ==
    LET numSamples == Len(pcmData)
        dataSize == numSamples * 2
        v0 == NewView(44 + dataSize)
        v1 == writeString(v0, 0, RIFF)
        v2 == Store(v1, 4, Uint32LE(36 + dataSize))
        v3 == writeString(v2, 8, WAVE)
        v4 == writeString(v3, 12, FMT)
        v5 == Store(v4, 16, Uint32LE(16))
        v6 == Store(v5, 20, Uint16LE(1))
        v7 == Store(v6, 22, Uint16LE(1))
        v8 == Store(v7, 24, Uint32LE(sampleRate))
        v9 == Store(v8, 28, Uint32LE(sampleRate * 2))
        v10 == Store(v9, 32, Uint16LE(2))
        v11 == Store(v10, 34, Uint16LE(16))
        v12 == writeString(v11, 36, DATA)
        v13 == Store(v12, 40, Uint32LE(numSamples))
    IN PcmLoop(v13, pcmData, 0)

\* pcmToWav(pcmData, sampleRate): the bytes of the blob
pcmToWav(pcmData, sampleRate) ==
    LET numSamples == Len(pcmData)
        numChannels == 1
        bytesPerSample == 2
        blockAlign == numChannels * bytesPerSample
        byteRate == sampleRate * blockAlign
        dataSize == numSamples * bytesPerSample
        v0 == NewView(44 + dataSize)
        v1 == writeString(v0, 0, RIFF)
        v2 == Store(v1, 4, Uint32LE(36 + dataSize))
        v3 == writeString(v2, 8, WAVE)
        v4 == writeString(v3, 12, FMT)
        v5 == Store(v4, 16, Uint32LE(16))
        v6 == Store(v5, 20, Uint16LE(1))
        v7 == Store(v6, 22, Uint16LE(numChannels))
        v8 == Store(v7, 24, Uint32LE(sampleRate))
        v9 == Store(v8, 28, Uint32LE(byteRate))
        v10 == Store(v9, 32, Uint16LE(blockAlign))
        v11 == Store(v10, 34, Uint16LE(16))
        v12 == writeString(v11, 36, DATA)
        v13 == Store(v12, 40, Uint32LE(dataSize))
    IN PcmLoop(v13, pcmData, 0)

\* A Float32Array sample x is the fraction n / FloatDen; the model keeps n.
FloatDen == 32768

\* (q) | 0 of the quotient num / den: the fraction is dropped, toward zero.
TruncToInt(num, den) ==
    IF num >= 0 THEN num \div den ELSE -((-num) \div den)

\* sample = Math.max(-1, Math.min(1, channels[i][pos]));
\* sample = (0.5 + sample < 0 ? sample * 32768 : sample * 32767) | 0;
\* for the sample n / FloatDen
FloatToInt16(n) ==
    LET min1 == IF n < FloatDen THEN n ELSE FloatDen
        sample == IF min1 > -FloatDen THEN min1 ELSE -FloatDen
    IN IF FloatDen \div 2 + sample < 0
       THEN TruncToInt(sample * 32768, FloatDen)
       ELSE TruncToInt(sample * 32767, FloatDen)

RECURSIVE AudioBufferLoop(_, _, _, _, _)
\* while (pos < buffer.length) { for (i = 0; i < numOfChan; i++) { ...;
\* view.setInt16(offset, sample, true); offset += 2 } pos++ }
AudioBufferLoop(view, channels, pos, i, offset) ==
    IF pos >= Len(channels[1]) THEN view
    ELSE IF i < Len(channels)
         THEN AudioBufferLoop(
                  Store(view, offset, Int16LE(FloatToInt16(channels[i + 1][pos + 1]))),
                  channels, pos, i + 1, offset + 2)
         ELSE AudioBufferLoop(view, channels, pos + 1, 0, offset)

\* audioBufferToWav(buffer) for buffer = [sampleRate, channels], where
\* channels[i + 1] is buffer.getChannelData(i): the bytes of the blob
audioBufferToWav(buffer) ==
    LET numOfChan == Len(buffer.channels)
        length == Len(buffer.channels[1]) * numOfChan * 2 + 44
        pos == 0
        v0 == NewView(length)
        v1 == writeString(v0, 0, RIFF)
        v2 == Store(v1, 4, Uint32LE(length - 8))
        v3 == writeString(v2, 8, WAVE)
        v4 == writeString(v3, 12, FMT)
        v5 == Store(v4, 16, Uint32LE(16))
        v6 == Store(v5, 20, Uint16LE(1))
        v7 == Store(v6, 22, Uint16LE(numOfChan))
        v8 == Store(v7, 24, Uint32LE(buffer.sampleRate))
        v9 == Store(v8, 28, Uint32LE(buffer.sampleRate * 2 * numOfChan))
        v10 == Store(v9, 32, Uint16LE(numOfChan * 2))
        v11 == Store(v10, 34, Uint16LE(16))
        v12 == writeString(v11, 36, DATA)
        v13 == Store(v12, 40, Uint32LE(length - pos - 4))
    IN AudioBufferLoop(v13, buffer.channels, pos, 0, 44)

\* ------------------------------------------- the sample rate of a response
\* A string is the sequence of its characters.
RateEq == <<"r", "a", "t", "e", "=">>
AudioL16 == <<"a", "u", "d", "i", "o", "/", "L", "1", "6", ";", " ">>

\* 'audio/L16; rate=24000'
DefaultMimeType == AudioL16 \o RateEq \o <<"2", "4", "0", "0", "0">>

\* \d, and the value of a digit
DigitValue ==
    ("0" :> 0) @@ ("1" :> 1) @@ ("2" :> 2) @@ ("3" :> 3) @@ ("4" :> 4) @@
    ("5" :> 5) @@ ("6" :> 6) @@ ("7" :> 7) @@ ("8" :> 8) @@ ("9" :> 9)
IsDigit(c) == c \in DOMAIN DigitValue

RECURSIVE DigitsFrom(_, _)
\* (\d+) from position i on: as many digits as there are
DigitsFrom(str, i) ==
    IF i <= Len(str) /\ IsDigit(str[i])
    THEN <<str[i]>> \o DigitsFrom(str, i + 1)
    ELSE <<>>

RECURSIVE MatchRate(_, _)
\* mimeType.match(/rate=(\d+)/)[1], searched from position i on; <<>> stands
\* for null (no match)
MatchRate(str, i) ==
    IF i + 5 > Len(str) THEN <<>>
    ELSE IF SubSeq(str, i, i + 4) = RateEq /\ IsDigit(str[i + 5])
         THEN DigitsFrom(str, i + 5)
         ELSE MatchRate(str, i + 1)

RECURSIVE parseInt(_, _)
\* parseInt(digits, 10) of a string of digits, acc being the value so far
parseInt(digits, acc) ==
    IF digits = <<>> THEN acc
    ELSE parseInt(Tail(digits), acc * 10 + DigitValue[Head(digits)])

\* A parse that takes one digit (\d) where the code takes them all (\d+).
SampleRateOf_OneDigit(resultMimeType) ==
    LET mimeType == IF resultMimeType # <<>> THEN resultMimeType ELSE DefaultMimeType
        sampleRateMatch == MatchRate(mimeType, 1)
    IN IF sampleRateMatch # <<>> THEN parseInt(<<Head(sampleRateMatch)>>, 0) ELSE 24000

\* const mimeType = result.mimeType || 'audio/L16; rate=24000';
\* const sampleRateMatch = mimeType.match(/rate=(\d+)/);
\* const sampleRate = sampleRateMatch ? parseInt(sampleRateMatch[1], 10) : 24000;
\* A missing mimeType and the empty string are both <<>>.
SampleRateOf(resultMimeType) ==
    LET mimeType == IF resultMimeType # <<>> THEN resultMimeType ELSE DefaultMimeType
        sampleRateMatch == MatchRate(mimeType, 1)
    IN IF sampleRateMatch # <<>> THEN parseInt(sampleRateMatch, 0) ELSE 24000

\* ------------------------------------------------- the codec, call by call
\* The arguments the functions of the codec are called with.
SeqsUpTo(S, n) == UNION {[1..k -> S] : k \in 0..n}

Int16Samples == {-32768, -2, -1, 0, 1, 255, 256, 32767}
FloatSamples == {-40000, -32768, -16385, -16384, -1, 0, 1, 16384, 32768, 40000}
PcmRates == {1, 24000, 44100, 1000000000}

\* mimeType of a response: missing, or text around a rate parameter
DigitRuns == {<<"0">>, <<"8">>, <<"0", "8">>, <<"1", "6", "0", "0", "0">>,
              <<"2", "4", "0", "0", "0">>, <<"4", "8", "0", "0", "0">>}
RateParams ==
    {<<>>, RateEq, <<"r", "a", "t", "e">> \o <<"8">>,
     <<"R", "a", "t", "e", "=">> \o <<"8">>, RateEq \o <<"x", "8">>}
    \cup {RateEq \o d : d \in DigitRuns}
MimeTypes ==
    {<<>>} \cup
    {pre \o par \o suf :
        pre \in {<<>>, AudioL16},
        par \in RateParams,
        suf \in {<<>>, <<";">>, <<"k">>, <<";", " ">> \o RateEq \o <<"9">>}}

PcmToWavCalls ==
    {[NoCall EXCEPT !.fn = "pcmToWav", !.pcm = d, !.rate = r] :
        d \in SeqsUpTo(Int16Samples, MaxSamples), r \in PcmRates}
AudioBufferToWavCalls ==
    {[NoCall EXCEPT !.fn = "audioBufferToWav", !.floats = d, !.rate = r] :
        d \in SeqsUpTo(FloatSamples, MaxSamples), r \in SampleRates}
HandleGenerateCalls ==
    {[NoCall EXCEPT !.fn = "handleGenerate", !.pcm = d, !.mime = m] :
        d \in {<<>>, <<1, -2>>}, m \in MimeTypes}

CodecInit ==
    /\ AppInit
    /\ call \in PcmToWavCalls \cup AudioBufferToWavCalls \cup HandleGenerateCalls

\* pcmToWav(pcmData, sampleRate) returns
PcmToWavReturns ==
    /\ call.fn = "pcmToWav"
    /\ ~call.done
    /\ call' = [call EXCEPT !.out = pcmToWav(call.pcm, call.rate), !.done = TRUE]
    /\ UNCHANGED appVars

\* audioBufferToWav(newAudioBuffer) returns, newAudioBuffer being
\* audioCtx.createBuffer(1, processedSamples.length, audioBuffer.sampleRate)
AudioBufferToWavReturns ==
    /\ call.fn = "audioBufferToWav"
    /\ ~call.done
    /\ call' = [call EXCEPT
                   !.out = audioBufferToWav([sampleRate |-> call.rate,
                                             channels |-> <<call.floats>>]),
                   !.done = TRUE]
    /\ UNCHANGED appVars

\* handleGenerate on a result with audioData: the sample rate is read off
\* result.mimeType and pcmToWav(pcm16, sampleRate) is called with it.
HandleGenerateEncodes ==
    /\ call.fn = "handleGenerate"
    /\ ~call.done
    /\ LET sampleRate == SampleRateOf(call.mime) IN
       call' = [call EXCEPT !.rate = sampleRate,
                            !.out = pcmToWav(call.pcm, sampleRate),
                            !.done = TRUE]
    /\ UNCHANGED appVars

CodecNext ==
    \/ PcmToWavReturns
    \/ AudioBufferToWavReturns
    \/ HandleGenerateEncodes

CodecSpec == CodecInit /\ [][CodecNext]_vars

\* Reading a WAV file: the unsigned 32-bit and the signed 16-bit
\* little-endian number at offset o.
U32At(bytes, o) ==
    bytes[o + 1] + 256 * bytes[o + 2] + 65536 * bytes[o + 3]
        + 16777216 * bytes[o + 4]
Int16At(bytes, o) ==
    LET u == bytes[o + 1] + 256 * bytes[o + 2]
    IN IF u >= 32768 THEN u - 65536 ELSE u

\* Writing a number v >= 0 in decimal digits, and a string of digits without
\* its leading zeros: what parseInt(.., 10) undoes.
DigitChar == <<"0", "1", "2", "3", "4", "5", "6", "7", "8", "9">>

RECURSIVE ToDecimal(_)
ToDecimal(v) ==
    IF v < 10 THEN <<DigitChar[v + 1]>>
    ELSE ToDecimal(v \div 10) \o <<DigitChar[(v % 10) + 1]>>

RECURSIVE StripZeros(_)
StripZeros(digits) ==
    IF Len(digits) > 1 /\ Head(digits) = "0" THEN StripZeros(Tail(digits))
    ELSE digits

\* ------------------------------------- callTtsApi of the direct-call variant
\* for (let i = 0, delay = 1000; i < 3; i++, delay *= 2)
MaxAttempts == 3
FirstDelay == 1000

\* What fetch settles with: status 0 stands for a rejected fetch (no
\* response); a 200 carries a body with valid audio ("audio"), a body with no
\* audioData ("noAudio"), a body whose mimeType does not start with "audio/"
\* ("otherMime") or a body response.json() rejects ("badJson").
Responses ==
    {[status |-> 200, body |-> b] : b \in {"audio", "noAudio", "otherMime", "badJson"}}
    \cup {[status |-> st, body |-> "error"] : st \in {0, 400, 401, 404, 429, 500, 503}}

\* response.status === 429 || response.status >= 500
Transient(r) == r.status = 429 \/ r.status >= 500

\* callTtsApi(textToSpeak, voice) is called: i = 0, delay = 1000.
TtsCall ==
    [fn |-> "callTtsApi", pc |-> "fetch", i |-> 0, delay |-> FirstDelay,
     responses |-> <<>>, waits |-> <<>>, result |-> "none", error |-> "none"]

\* i++, delay *= 2, then the test i < 3: the next attempt, or the throw
\* after the loop.
NextAttempt(c) ==
    IF c.i + 1 < MaxAttempts
    THEN [c EXCEPT !.pc = "fetch", !.i = c.i + 1, !.delay = c.delay * 2]
    ELSE [c EXCEPT !.pc = "threw", !.i = c.i + 1, !.delay = c.delay * 2,
                   !.error = "noResponse"]

\* catch (error) { if (i === 2) throw error; }
Catch(c, error) ==
    IF c.i = 2 THEN [c EXCEPT !.pc = "threw", !.error = error]
    ELSE NextAttempt(c)

\* The fetch of attempt i settles with r and the body of the try runs up to
\* its return, its throw (caught by the catch of the loop) or the await of
\* the timer.
FetchSettles(r) ==
    /\ call.fn = "callTtsApi"
    /\ call.pc = "fetch"
    /\ LET c == [call EXCEPT !.responses = Append(@, r)] IN
       call' = IF r.status = 0 THEN Catch(c, "fetch")
               ELSE IF r.status = 200
               THEN IF r.body = "audio"
                    THEN [c EXCEPT !.pc = "returned", !.result = "audio"]
                    ELSE Catch(c, "noValidAudio")
               ELSE IF r.status = 401 THEN Catch(c, "401")
               ELSE IF Transient(r)
               THEN [c EXCEPT !.pc = "waiting",
                              !.waits = Append(@, [attempt |-> c.i, ms |-> c.delay])]
               ELSE Catch(c, "api")
    /\ UNCHANGED appVars

\* A loop that falls off its end: the function returns undefined.
TimerFires_ReturnsNothing ==
    /\ call.fn = "callTtsApi"
    /\ call.pc = "waiting"
    /\ call' = IF call.i + 1 < MaxAttempts THEN NextAttempt(call)
               ELSE [call EXCEPT !.pc = "returned", !.i = call.i + 1]
    /\ UNCHANGED appVars

\* setTimeout(resolve, delay) fires: the await in the transient branch ends
\* and the loop goes on.
TimerFires ==
    /\ call.fn = "callTtsApi"
    /\ call.pc = "waiting"
    /\ call' = NextAttempt(call)
    /\ UNCHANGED appVars

RetryInit ==
    /\ AppInit
    /\ call = TtsCall

RetryNext ==
    \/ \E r \in Responses : FetchSettles(r)
    \/ TimerFires

RetrySpec == RetryInit /\ [][RetryNext]_vars

\* Every fetch settles and every timer fires.
RetryFairSpec == RetrySpec /\ WF_vars(RetryNext)

\* ------------------------------------------- one job inside the worker
\* e.data.buffer: n samples, all different
Buffer(n) == [k \in 1..n |-> 10 + k]

\* What soundtouch_pipe.getSamples may return: null (<<>>, no channels) or
\* [left, right]; the loop goes on while there is a chunk with a non-empty
\* first channel.
MonoChunks == {<<>>, <<1>>, <<2, 3>>, <<4>>}
GetSamplesResults ==
    {<<>>} \cup {c \in MonoChunks \X MonoChunks : Len(c[1]) = Len(c[2])}

\* processed_chunk_stereo && processed_chunk_stereo[0].length > 0
HasSamples(chunk) == chunk # <<>> /\ Len(chunk[1]) > 0

\* stereoChunk[i * 2] = stereoChunk[i * 2 + 1] = monoChunk[i]
Interleave(monoChunk) ==
    [k \in 1..(Len(monoChunk) * 2) |-> monoChunk[((k - 1) \div 2) + 1]]

\* self.onmessage starts on e.data: source.position = 0, the loop not yet
\* entered. gets counts the calls of source.get, last is what the last call
\* was asked and gave, handed all the frames it gave so far; emitted is
\* what getSamples returned so far.
JobCall(n) ==
    [fn |-> "onmessage", buffer |-> Buffer(n), position |-> 0, gets |-> 0,
     last |-> [frameCount |-> 0, null |-> FALSE, chunk |-> <<>>],
     handed |-> <<>>, pc |-> "loop", emitted |-> <<>>,
     all_processed_data |-> <<>>, posted |-> <<>>]

\* A source.get that never moves its position.
SourceGet_KeepsPosition(frameCount) ==
    /\ call.fn = "onmessage"
    /\ call.pc = "loop"
    /\ call.gets < MaxGets
    /\ IF call.position >= Len(call.buffer)
       THEN call' = [call EXCEPT !.gets = @ + 1,
                         !.last = [frameCount |-> frameCount, null |-> TRUE,
                                   chunk |-> <<>>]]
       ELSE LET end == IF call.position + frameCount < Len(call.buffer)
                       THEN call.position + frameCount ELSE Len(call.buffer)
                monoChunk == SubSeq(call.buffer, call.position + 1, end)
                stereoChunk == Interleave(monoChunk)
            IN call' = [call EXCEPT !.gets = @ + 1,
                            !.last = [frameCount |-> frameCount, null |-> FALSE,
                                      chunk |-> stereoChunk],
                            !.handed = @ \o stereoChunk]
    /\ UNCHANGED appVars

\* source.get(frameCount), called by the library
SourceGet(frameCount) ==
    /\ call.fn = "onmessage"
    /\ call.pc = "loop"
    /\ call.gets < MaxGets
    /\ IF call.position >= Len(call.buffer)
       THEN call' = [call EXCEPT !.gets = @ + 1,
                         !.last = [frameCount |-> frameCount, null |-> TRUE,
                                   chunk |-> <<>>]]
       ELSE LET end == IF call.position + frameCount < Len(call.buffer)
                       THEN call.position + frameCount ELSE Len(call.buffer)
                monoChunk == SubSeq(call.buffer, call.position + 1, end)
                stereoChunk == Interleave(monoChunk)
            IN call' = [call EXCEPT !.gets = @ + 1,
                            !.position = end,
                            !.last = [frameCount |-> frameCount, null |-> FALSE,
                                      chunk |-> stereoChunk],
                            !.handed = @ \o stereoChunk]
    /\ UNCHANGED appVars

RECURSIVE TotalLength(_)
\* all_processed_data.reduce((sum, arr) => sum + arr.length, 0)
TotalLength(chunks) ==
    IF chunks = <<>> THEN 0 ELSE Len(Head(chunks)) + TotalLength(Tail(chunks))

RECURSIVE SetChunks_AtZero(_, _, _)
\* A concatenation that never advances offset.
SetChunks_AtZero(result, chunks, offset) ==
    IF chunks = <<>> THEN result
    ELSE SetChunks_AtZero(Store(result, offset, Head(chunks)), Tail(chunks), offset)

RECURSIVE SetChunks(_, _, _)
\* for (const chunk of all_processed_data) { result.set(chunk, offset);
\* offset += chunk.length; }
SetChunks(result, chunks, offset) ==
    IF chunks = <<>> THEN result
    ELSE SetChunks(Store(result, offset, Head(chunks)), Tail(chunks),
                   offset + Len(Head(chunks)))

\* A loop that ends after its first pass whatever getSamples returned.
LoopPass_Once(chunk) ==
    /\ call.fn = "onmessage"
    /\ call.pc = "loop"
    /\ HasSamples(chunk) => Len(call.all_processed_data) < MaxChunks
    /\ LET kept == IF HasSamples(chunk)
                   THEN Append(call.all_processed_data, chunk[1])
                   ELSE call.all_processed_data
           result == SetChunks(NewView(TotalLength(kept)), kept, 0)
       IN call' = [call EXCEPT !.emitted = Append(@, chunk),
                       !.all_processed_data = kept,
                       !.pc = "done",
                       !.posted = <<[type |-> "result", result |-> result]>>]
    /\ UNCHANGED appVars

\* One pass of the do-while: getSamples(CHUNK_SIZE) returns chunk; with
\* samples its first channel is pushed and the loop goes on, without the
\* loop ends, the chunks are concatenated and { result } is posted. The
\* library gives at most MaxChunks chunks with samples.
LoopPass(chunk) ==
    /\ call.fn = "onmessage"
    /\ call.pc = "loop"
    /\ HasSamples(chunk) => Len(call.all_processed_data) < MaxChunks
    /\ IF HasSamples(chunk)
       THEN call' = [call EXCEPT !.emitted = Append(@, chunk),
                         !.all_processed_data = Append(@, chunk[1])]
       ELSE LET totalLength == TotalLength(call.all_processed_data)
                result == SetChunks(NewView(totalLength),
                                    call.all_processed_data, 0)
            IN call' = [call EXCEPT !.emitted = Append(@, chunk),
                            !.pc = "done",
                            !.posted = <<[type |-> "result", result |-> result]>>]
    /\ UNCHANGED appVars

\* new SoundTouch.P or getSamples throws: the catch posts { error }.
LoopThrows ==
    /\ call.fn = "onmessage"
    /\ call.pc = "loop"
    /\ call' = [call EXCEPT !.pc = "done",
                    !.posted = <<[type |-> "error", result |-> <<>>]>>]
    /\ UNCHANGED appVars

\* getSamples returns or throws
LoopStep ==
    \/ \E chunk \in GetSamplesResults : LoopPass(chunk)
    \/ LoopThrows

JobInit ==
    /\ AppInit
    /\ call \in {JobCall(n) : n \in 0..MaxSamples}

JobNext ==
    \/ \E frameCount \in 0..MaxSamples : SourceGet(frameCount)
    \/ \E chunk \in GetSamplesResults : LoopPass(chunk)
    \/ LoopThrows

JobSpec == JobInit /\ [][JobNext]_vars

\* Every call of getSamples returns (or throws).
JobFairSpec == JobSpec /\ WF_vars(LoopStep)

\* ------------------------------------------- the backend, POST /api/generate-tts
\* The handler exists in two forms: with node-fetch ("fetch": backend/server.js
\* and part_002, which differ in the payload only) and with axios ("axios":
\* the server kept in src/App.jsx).
Variants == {"fetch", "axios"}

\* req.body.text and req.body.voice: missing, the empty string, or a value
Fields == {"missing", "empty", "value"}

\* process.env.GOOGLE_API_KEY: unset, the placeholder of .env, or a key
ApiKeys == {"unset", "TU_API_KEY_AQUI", "key"}

\* What the upstream call settles with: status 0 stands for no response at
\* all (the request failed); a 200 carries valid audio ("audio"), no
\* audioData ("noAudio"), a mimeType that is not audio/ ("otherMime") or a
\* body that is not JSON ("badJson"); an error status carries a JSON body
\* with error.message ("errorMessage"), a body without an error field
\* ("noErrorField") or a body that cannot be read ("unreadable").
Upstream ==
    {[status |-> 0, body |-> "none"]}
    \cup {[status |-> 200, body |-> b] : b \in {"audio", "noAudio", "otherMime", "badJson"}}
    \cup {[status |-> st, body |-> b] :
             st \in {400, 429, 500}, b \in {"errorMessage", "noErrorField", "unreadable"}}

\* A request has arrived and the handler has not run yet.
BackendCall(variant, reqText, reqVoice, apiKey) ==
    [fn |-> "generate-tts", variant |-> variant, text |-> reqText,
     voice |-> reqVoice, apiKey |-> apiKey, pc |-> "received", upstreamCalls |-> 0,
     upstream |-> [status |-> 0, body |-> "pending"], responses |-> <<>>]

\* res.status(code).json(..): the response is sent and the handler ends
Respond(c, code) == [c EXCEPT !.pc = "done", !.responses = Append(@, code)]

\* !apiKey (|| apiKey === "TU_API_KEY_AQUI" in the axios form)
NoApiKey(c) ==
    \/ c.apiKey = "unset"
    \/ c.variant = "axios" /\ c.apiKey = "TU_API_KEY_AQUI"

\* A handler that looks at the API key before it looks at the request.
HandleRequest_KeyFirst ==
    /\ call.fn = "generate-tts"
    /\ call.pc = "received"
    /\ call' = IF NoApiKey(call) THEN Respond(call, 500)
               ELSE IF call.text # "value" \/ call.voice # "value"
               THEN Respond(call, 400)
               ELSE [call EXCEPT !.pc = "upstream", !.upstreamCalls = @ + 1]
    /\ UNCHANGED appVars

\* The handler up to its await: the two checks, then the upstream call.
HandleRequest ==
    /\ call.fn = "generate-tts"
    /\ call.pc = "received"
    /\ call' = IF call.text # "value" \/ call.voice # "value"
               THEN Respond(call, 400)
               ELSE IF NoApiKey(call) THEN Respond(call, 500)
               ELSE [call EXCEPT !.pc = "upstream", !.upstreamCalls = @ + 1]
    /\ UNCHANGED appVars

\* The node-fetch form after its await: !apiResponse.ok answers with the
\* upstream status and body; a rejected fetch, text() or json() is caught
\* and answered with 500.
FetchFormSettles(c, u) ==
    IF u.status = 0 THEN Respond(c, 500)
    ELSE IF u.status # 200
    THEN IF u.body = "unreadable" THEN Respond(c, 500) ELSE Respond(c, u.status)
    ELSE IF u.body = "badJson" THEN Respond(c, 500)
    ELSE IF u.body = "audio" THEN Respond(c, 200)
    ELSE Respond(c, 500)

\* The axios form after its await: a non-2xx status rejects with
\* error.response, whose data.error.message the catch reads; with no
\* error field in the data that read throws inside the catch and the
\* handler ends without a response ("crashed").
AxiosFormSettles(c, u) ==
    IF u.status = 0 THEN Respond(c, 500)
    ELSE IF u.status # 200
    THEN IF u.body = "errorMessage" THEN Respond(c, u.status)
         ELSE [c EXCEPT !.pc = "crashed"]
    ELSE IF u.body \in {"audio", "otherMime"} THEN Respond(c, 200)
    ELSE Respond(c, 500)

\* The upstream call settles with u and the handler runs to its end.
UpstreamSettles(u) ==
    /\ call.fn = "generate-tts"
    /\ call.pc = "upstream"
    /\ LET c == [call EXCEPT !.upstream = u] IN
       call' = IF call.variant = "fetch" THEN FetchFormSettles(c, u)
               ELSE AxiosFormSettles(c, u)
    /\ UNCHANGED appVars

BackendInit ==
    /\ AppInit
    /\ call \in {BackendCall(v, t, vo, k) :
                    v \in Variants, t \in Fields, vo \in Fields, k \in ApiKeys}

BackendNext ==
    \/ HandleRequest
    \/ \E u \in Upstream : UpstreamSettles(u)

BackendSpec == BackendInit /\ [][BackendNext]_vars

\* ------------------------------------------------- vocabulary of the claims
\* Invocation j of handleModifiedDownload posted its job.
Posted(j) == hmd[j].pc = "posted"

\* What the handlers of invocation j have been called with.
Outcomes(j) == {r \in handled : r.h = j}

InInbox(j) == \E i \in 1..Len(wInbox) : wInbox[i].job = j
InMainQ(j) == \E i \in 1..Len(mainQ) : mainQ[i].job = j

\* Nothing is pending anywhere: no promise, no queued event, no running job.
Quiescent ==
    /\ wState # "loading"
    /\ wInbox = <<>>
    /\ wpc = "idle"
    /\ mainQ = <<>>
    /\ ~errEvent
    /\ \A j \in Jobs : hmd[j].pc # "decoding"

\* ------------------------------------------------------------------ claims

\* C1: every job that handleModifiedDownload posts ends in exactly one
\* outcome seen by its caller: its handlers are never called twice, and
\* once nothing is pending any more they have been called once.
C1_ExactlyOneOutcome ==
    \A j \in Jobs :
        Posted(j) =>
            /\ Cardinality(Outcomes(j)) <= 1
            /\ (phase = "mounted" /\ Quiescent) => Cardinality(Outcomes(j)) = 1

\* C2: at most one job is in flight: no two posted jobs are both without
\* an observed result or error.
C2_SingleFlight ==
    phase = "mounted" =>
        Cardinality({j \in Jobs : Posted(j) /\ Outcomes(j) = {}}) <= 1

\* C3: a handler only ever handles the message its own job produced, and a
\* processed download is rebuilt at that job's sample rate and named after
\* that job's tempo.
C3_NoCrossContamination ==
    /\ \A r \in handled : r.m = r.h
    /\ lastDownload.src = "processed" =>
           /\ lastDownload.msgJob = lastDownload.job
           /\ lastDownload.speed = lastDownload.msgTempo
           /\ lastDownload.sampleRate = lastDownload.msgRate

\* C4: after a failed worker initialisation no stretch attempt hangs: once
\* nothing is pending any more, isProcessingDownload is false again.
C4_RejectedNotHanging ==
    (phase = "mounted" /\ wState = "failed" /\ Quiescent) => ~isProcessingDownload

\* C5: once the two events of a failed worker initialisation have been
\* dispatched on the main thread, the failure has been surfaced exactly once.
C5_SurfacedOnce ==
    (phase = "mounted" /\ wState = "failed" /\ ~InMainQ(InitTag) /\ ~errEvent) =>
        Cardinality({r \in handled : r.m = InitTag}) = 1

\* The worker has answered some job with the { error } of its catch.
ErrorBefore == \E k \in Jobs : wPosted[k] = <<"error">>

\* C6: once the worker has answered a job with a caught error it still has
\* its onmessage: the next job it takes from its inbox is started or
\* answered with an error of its own, and a started job leaves the chunk
\* loop only by posting one message of its own.
C6_WorkerSurvivesError ==
    /\ [](ErrorBefore => wState \in {"ready", "terminated"})
    /\ [][(ErrorBefore /\ phase' = "mounted" /\ wInbox # <<>> /\ wInbox' = Tail(wInbox)) =>
            LET e == Head(wInbox) IN
            \/ wpc' = "loop" /\ wJob' = e /\ wPosted'[e.job] = <<>>
            \/ /\ wPosted'[e.job] = <<"error">>
               /\ mainQ' = Append(mainQ, WorkerMessage("error", e, <<>>))]_vars
    /\ [][(ErrorBefore /\ phase' = "mounted" /\ wpc = "loop" /\ wpc' # "loop") =>
            /\ Len(wPosted'[wJob.job]) = 1
            /\ Len(mainQ') = Len(mainQ) + 1
            /\ mainQ'[Len(mainQ')].job = wJob.job]_vars

\* a job answered with a caught error, and a later job answered with a result
C6_Witness ==
    \E k, j \in Jobs : k < j /\ wPosted[k] = <<"error">> /\ wPosted[j] = <<"result">>

\* C7: the worker posts nothing for a job while its chunk loop runs, and at
\* most one message per job; a result is posted by the step that leaves the
\* loop and carries the concatenation of all the chunks kept.
C7_NoPartialResult ==
    /\ [](\A j \in Jobs : Len(wPosted[j]) <= 1)
    /\ [](wpc = "loop" => (wPosted[wJob.job] = <<>> /\ ~InMainQ(wJob.job)))
    /\ [][\A j \in Jobs :
            (wPosted'[j] # wPosted[j] /\ wPosted'[j][Len(wPosted'[j])] = "result") =>
                /\ wpc = "loop" /\ wJob.job = j /\ wpc' = "idle"
                /\ mainQ' = Append(mainQ, WorkerMessage("result", wJob,
                                                        Flatten(all_processed_data)))]_vars

\* a result of two chunks waits for the main thread
C7_Witness ==
    \E i \in 1..Len(mainQ) : mainQ[i].type = "result" /\ Len(mainQ[i].data) > 2

\* C8: a download made by handleModifiedDownload is the processed audio of
\* a job whose success result the job's own handler has received; the
\* original audio is downloaded by the original-download button only.
C8_DownloadOnlyOnSuccess ==
    /\ lastDownload.src = "processed" =>
           /\ Posted(lastDownload.job)
           /\ [h |-> lastDownload.job, m |-> lastDownload.job, kind |-> "result"] \in handled
    /\ lastDownload.src \in {"original", "null"} => lastDownload.job = 0
    /\ \A j \in Jobs : (hmd[j].pc \in {"decoding", "failed"}) => lastDownload.job # j

\* one job ended in an error, another one in a download
C8_Witness ==
    /\ lastDownload.src = "processed"
    /\ \E r \in handled : r.kind = "error" /\ r.h # lastDownload.job
    /\ \E j \in Jobs : hmd[j].pc = "failed"

\* C9: a step of the user that is not the unmount (typing, clearing, moving
\* the slider, generating) leaves the worker, its queues, the installed
\* handlers and isProcessingDownload as they are; and while the worker is
\* alive and the component mounted, a posted job whose outcome has not been
\* observed is still under way (in the worker's inbox, being processed, or
\* answered and waiting for the main thread) with the handlers of its
\* invocation installed.
C9_JobKeepsRunning ==
    /\ [][(phase' = "mounted" /\ (text' # text \/ speakingRate' # speakingRate
                                    \/ audioUrl' # audioUrl)) =>
            UNCHANGED <<workerVars, mainQVars, hmdVars, isProcessingDownload>>]_vars
    /\ []((phase = "mounted" /\ wState \in {"loading", "ready"}) =>
            \A j \in Jobs :
                (Posted(j) /\ Outcomes(j) = {}) =>
                    /\ Cardinality({p \in {"inbox", "worker", "mainQ"} :
                                       \/ p = "inbox" /\ InInbox(j)
                                       \/ p = "worker" /\ wJob.job = j
                                       \/ p = "mainQ" /\ InMainQ(j)}) = 1
                    /\ onmessage.job = j
                    /\ onerror.job = j
                    /\ isProcessingDownload)

\* the answer of a job has arrived after handleClear and a change of the
\* slider, both made while the job was under way
C9_Witness ==
    \E j \in Jobs :
        /\ Posted(j) /\ Outcomes(j) = {} /\ InMainQ(j)
        /\ phase = "mounted"
        /\ ~audioUrl /\ text = "empty"
        /\ speakingRate # onmessage.tempo

\* C10 as stated: exactly one worker has been created once the mount effect
\* has run, every job went to it, and it is terminated after the unmount.
C10_ExactlyOneWorker ==
    /\ phase # "init" => workersCreated = 1
    /\ \A j \in Jobs : Posted(j) => hmd[j].target = 1
    /\ phase = "unmounted" => wState = "terminated"

\* C10 amended: at most one worker is created, exactly one unless the
\* construction throws; workerRef.current is that worker from then on,
\* every job went to it, and if it was created it is terminated after the
\* unmount, whatever the state of its jobs.
C10_OneWorkerLifecycle ==
    /\ [](/\ workersCreated <= 1
          /\ phase # "init" => workerRef = workersCreated
          /\ \A j \in Jobs : Posted(j) => hmd[j].target = 1
          /\ (phase = "unmounted" /\ workersCreated = 1) => wState = "terminated")
    /\ [][/\ workersCreated' # workersCreated => phase = "init"
          /\ (phase = "init" /\ phase' # "init") =>
                \/ workersCreated' = 1 /\ wState' = "loading"
                \/ workersCreated' = 0 /\ status'.type = "error"]_vars

\* the component unmounted while a job was under way
C10_Witness ==
    /\ phase = "unmounted"
    /\ wState = "terminated"
    /\ \E j \in Jobs : Posted(j) /\ hmd[j].target = 1 /\ Outcomes(j) = {}
    /\ isProcessingDownload

\* A tempo the slider can send: within [0.5, 2.0] and not 1.0.
SendableTempo(t) == t \in TempoMin..TempoMax /\ t # TempoOne

\* C11: every job posted to the worker carries a tempo within [0.5, 2.0]
\* that is not 1.0; the tempo is the slider value of the render whose
\* corrected-download button was clicked, also when the slider moves while
\* the audio is decoded; and at 1.0 a click starts no job.
C11_TempoEnvelope ==
    /\ [](/\ \A i \in 1..Len(wInbox) : SendableTempo(wInbox[i].tempo)
          /\ wpc = "loop" => SendableTempo(wJob.tempo)
          /\ \A i \in 1..Len(mainQ) :
                mainQ[i].job # InitTag => SendableTempo(mainQ[i].tempo))
    /\ [][/\ nextJob' # nextJob =>
                /\ speakingRate # TempoOne
                /\ hmd'[nextJob].tempo = speakingRate
           /\ \A j \in Jobs :
                hmd[j].pc = "decoding" /\ hmd'[j].pc = "posted" /\ wInbox' # wInbox =>
                    wInbox'[Len(wInbox')].tempo = hmd[j].tempo]_vars

\* A job waits in the worker's inbox with the tempo of its click, while
\* the slider has been moved back to 1.0.
C11_Witness ==
    \E i \in 1..Len(wInbox) :
        /\ wInbox[i].tempo # speakingRate
        /\ speakingRate = TempoOne
        /\ SendableTempo(wInbox[i].tempo)

\* The tempo, in tenths, a download's file name shows.
TempoInName(name) == name[2] * 10 + name[4]

\* C12: the name of a tempo-corrected download shows, to one decimal place,
\* the tempo that was sent to the worker for the job it comes from, also
\* when the slider moved while the job ran; the original download is named
\* with 1.0; and no tempo that differs at one decimal place from the one a
\* download was made at gives the name of that download.
C12_NameShowsTempo ==
    /\ lastDownload.src = "processed" =>
          /\ Len(lastDownload.name) = 5
          /\ TempoInName(lastDownload.name) = lastDownload.msgTempo
          /\ lastDownload.name # FileName(TempoOne)
    /\ lastDownload.src \in {"original", "null"} =>
          lastDownload.name = <<"audio-HQ-", 1, ".", 0, "x.wav">>
    /\ lastDownload.src # "none" =>
          \A t \in TempoMin..TempoMax :
              t # lastDownload.speed => FileName(t) # lastDownload.name

\* A corrected download was started for a job whose tempo the slider no
\* longer shows.
C12_Witness ==
    /\ lastDownload.src = "processed"
    /\ lastDownload.msgTempo # speakingRate
    /\ status = Status("downloadStarted", "success")

\* C13: for every 16-bit sample array S and sample rate r, pcmToWav gives
\* exactly 44 + 2 * len(S) bytes whose header holds r at bytes 24-27,
\* 2 * len(S) at bytes 40-43 and the total length less 8 at bytes 4-7.
C13_PcmToWavHeader ==
    call.fn = "pcmToWav" /\ call.done =>
        /\ Len(call.out) = 44 + 2 * Len(call.pcm)
        /\ U32At(call.out, 24) = call.rate
        /\ U32At(call.out, 40) = 2 * Len(call.pcm)
        /\ U32At(call.out, 4) = Len(call.out) - 8

\* pcmToWav returned for an array of two samples.
C13_Witness ==
    /\ call.fn = "pcmToWav"
    /\ call.done
    /\ Len(call.pcm) = 2
    /\ Len(call.out) = 48

\* C14: for a mono float buffer of n samples, the data-size field (bytes
\* 40-43) of what audioBufferToWav gives is n * 2 and the chunk-size field
\* (bytes 4-7) is the total length less 8.
C14_AudioBufferHeader ==
    call.fn = "audioBufferToWav" /\ call.done =>
        /\ U32At(call.out, 40) = Len(call.floats) * 2
        /\ U32At(call.out, 4) = Len(call.out) - 8

\* C15: audioBufferToWav stores for each float sample x the value clamped
\* to [-1, 1], times 32768 when negative and times 32767 otherwise, cut
\* toward zero; also for the negative x above -0.5.
C15_AsymmetricScaling ==
    call.fn = "audioBufferToWav" /\ call.done =>
        \A i \in 1..Len(call.floats) :
            LET n == call.floats[i]
                c == IF n > FloatDen THEN FloatDen
                     ELSE IF n < -FloatDen THEN -FloatDen ELSE n
                q == IF c < 0 THEN c * 32768 ELSE c * 32767
                cut == IF q >= 0 THEN q \div FloatDen ELSE -((-q) \div FloatDen)
            IN Int16At(call.out, 44 + 2 * (i - 1)) = cut

\* C16: the bytes of pcmToWav(S, r) from offset 44 on, read as
\* little-endian signed 16-bit numbers, are S.
C16_PayloadRoundTrip ==
    call.fn = "pcmToWav" /\ call.done =>
        /\ (Len(call.out) - 44) = 2 * Len(call.pcm)
        /\ \A i \in 1..Len(call.pcm) :
              Int16At(call.out, 44 + 2 * (i - 1)) = call.pcm[i]

\* pcmToWav returned for samples below zero and above one byte.
C16_Witness ==
    /\ call.fn = "pcmToWav"
    /\ call.done
    /\ \E i, j \in 1..Len(call.pcm) : call.pcm[i] < 0 /\ call.pcm[j] > 255
    /\ Len(call.out) > 44

\* C17: every generation attempt that passed validation ends with isLoading
\* false and either the success status with a playable audio URL or an error
\* status with no audio URL, also when the response lacks audioData.
C17_GenerationSettles ==
    [][genPc = "awaiting" /\ genPc' = "idle" /\ phase' = "mounted" =>
          /\ ~isLoading'
          /\ \/ status'.type = "success" /\ audioUrl'
             \/ status'.type = "error" /\ ~audioUrl']_vars

\* C18: when the text is empty or whitespace-only, or longer than the
\* character limit, handleGenerate sets an error status and returns: no
\* request is issued and isLoading, audioUrl and the stored original audio
\* stay as they were.
C18_InvalidTextFrame ==
    /\ [][call' # call /\ call'.text # "valid" =>
            /\ text # "valid"
            /\ status' = Status("invalidText", "error")
            /\ UNCHANGED <<isLoading, audioUrl, originalAudioBlob, genPc>>]_vars
    /\ [][status'.message = "invalidText" /\ status' # status =>
            /\ text # "valid"
            /\ UNCHANGED <<isLoading, audioUrl, originalAudioBlob, genPc>>]_vars
    /\ [][genPc = "idle" /\ genPc' = "awaiting" => text = "valid"]_vars

\* handleGenerate was called with a text over the limit while an audio was
\* shown, and the audio is still there.
C18_Witness ==
    /\ call.fn = "handleGenerate"
    /\ call.text = "tooLong"
    /\ status = Status("invalidText", "error")
    /\ audioUrl
    /\ originalAudioBlob
    /\ genPc = "idle"

\* C19: handleGenerate encodes the audio with the rate the rate= parameter
\* of the response's MIME type gives in decimal digits (the first such
\* parameter, all its digits), and with 24000 when the MIME type is missing
\* or has no rate= followed by a digit.
C19_RateFromMimeType ==
    call.fn = "handleGenerate" /\ call.done =>
        LET m == call.mime
            P == {i \in 1..(Len(m) - 5) :
                     SubSeq(m, i, i + 4) = RateEq /\ IsDigit(m[i + 5])}
            rate == U32At(call.out, 24)
        IN /\ call.rate = rate
           /\ IF P = {}
              THEN rate = 24000
              ELSE LET i == CHOOSE x \in P : \A y \in P : x <= y
                       j == CHOOSE x \in (i + 5)..Len(m) :
                               /\ \A l \in (i + 5)..x : IsDigit(m[l])
                               /\ x = Len(m) \/ ~IsDigit(m[x + 1])
                   IN ToDecimal(rate) = StripZeros(SubSeq(m, i + 5, j))

\* A response said rate=48000 and the WAV header says 48000.
C19_Witness ==
    /\ call.fn = "handleGenerate"
    /\ call.done
    /\ call.mime = AudioL16 \o RateEq \o <<"4", "8", "0", "0", "0">>
    /\ U32At(call.out, 24) = 48000

\* C20: whatever the response, the sample rate handleGenerate hands to
\* pcmToWav is a positive integer, also for a MIME type with rate=0.
C20_RatePositive ==
    call.fn = "handleGenerate" /\ call.done =>
        /\ call.rate > 0
        /\ U32At(call.out, 24) > 0

\* C21: callTtsApi sends a further request only after a transient response
\* (429 or 5xx); a 401, another non-success status or a success without
\* valid audio ends the call with that error after the one request.
C21_RetryOnlyTransient ==
    [][call.fn = "callTtsApi" /\ call'.responses # call.responses
          /\ call.responses # <<>> =>
              Transient(call.responses[Len(call.responses)])]_vars

RECURSIVE Pow2(_)
\* 2 to the power n
Pow2(n) == IF n = 0 THEN 1 ELSE 2 * Pow2(n - 1)

\* C28: one call of callTtsApi sends at most three requests and ends,
\* returning audio data with its MIME type or throwing; after a third
\* transient response it throws; and the wait after attempt 0, 1, 2 is
\* 1000, 2000, 4000 ms.
C28_BoundedRetry ==
    /\ [](Len(call.responses) <= 3)
    /\ [](call.pc = "returned" =>
            /\ call.result = "audio"
            /\ call.responses[Len(call.responses)] = [status |-> 200, body |-> "audio"])
    /\ [](Len(call.waits) = 3 /\ call.pc # "waiting" =>
            call.pc = "threw" /\ call.error = "noResponse")
    /\ [](\A k \in 1..Len(call.waits) :
            call.waits[k].ms = 1000 * Pow2(call.waits[k].attempt))
    /\ <>(call.pc \in {"returned", "threw"})

\* Three transient responses, three waits of 1000, 2000 and 4000 ms, and
\* the call threw.
C28_Witness ==
    /\ call.fn = "callTtsApi"
    /\ call.pc = "threw"
    /\ Len(call.responses) = 3
    /\ \A k \in 1..3 : Transient(call.responses[k])
    /\ [k \in 1..3 |-> call.waits[k].ms] = <<1000, 2000, 4000>>

\* C22: within one job source.get hands out the input samples in their
\* order, each once, at most frameCount of them per call, as interleaved
\* frames whose left and right value are the mono sample; once the position
\* is at the end of the buffer every later call returns null.
C22_SourceGet ==
    /\ [](/\ Len(call.handed) = 2 * call.position
          /\ \A k \in 1..call.position :
                /\ call.handed[2 * k - 1] = call.buffer[k]
                /\ call.handed[2 * k] = call.buffer[k]
          /\ Len(call.last.chunk) <= 2 * call.last.frameCount
          /\ call.position <= Len(call.buffer))
    /\ [][call'.gets # call.gets =>
            /\ call'.last.null <=> call.position >= Len(call.buffer)
            /\ call'.last.null => call'.position = call.position
            /\ call'.position >= call.position]_vars

\* The whole buffer was handed out and a later call got null.
C22_Witness ==
    /\ call.fn = "onmessage"
    /\ call.gets = 3
    /\ call.last.null
    /\ call.position = 2
    /\ call.handed = <<11, 11, 12, 12>>

\* C23: the result a job posts is the concatenation, in the order they were
\* returned, of the first channel of every chunk with samples that
\* getSamples returned, and it is as long as those chunks together.
C23_ResultIsConcatenation ==
    call.fn = "onmessage" /\ call.pc = "done" /\ call.posted[1].type = "result" =>
        LET result == call.posted[1].result
            withSamples == SelectSeq(call.emitted, HasSamples)
            first == [k \in 1..Len(withSamples) |-> withSamples[k][1]]
            before(k) == TotalLength(SubSeq(first, 1, k - 1))
        IN /\ Len(result) = TotalLength(first)
           /\ \A k \in 1..Len(first) : \A x \in 1..Len(first[k]) :
                 result[before(k) + x] = first[k][x]

\* A job posted the result of two chunks of different lengths.
C23_Witness ==
    /\ call.fn = "onmessage"
    /\ call.pc = "done"
    /\ call.posted = <<[type |-> "result", result |-> <<2, 3, 1>>]>>

\* C24: the chunk loop ends at the first getSamples call that returns no
\* chunk or a chunk with an empty first channel, and not before; and, the
\* library returning such a chunk after finitely many calls, every job ends
\* and posts its message.
C24_LoopEnds ==
    /\ [](\A k \in 1..Len(call.emitted) :
            HasSamples(call.emitted[k]) <=>
                (k < Len(call.emitted) \/ call.pc = "loop"
                   \/ call.posted[1].type = "error"))
    /\ [](call.pc = "done" <=> call.posted # <<>>)
    /\ <>(call.pc = "done" /\ Len(call.posted) = 1)

\* A job ended by an empty chunk after two chunks with samples.
C24_Witness ==
    /\ call.fn = "onmessage"
    /\ call.pc = "done"
    /\ Len(call.emitted) = 3
    /\ call.emitted[3] = <<<<>>, <<>>>>
    /\ call.posted[1].type = "result"

\* A stretch job is in progress: an invocation of handleModifiedDownload
\* decodes, or its job waits in, or is processed by, a worker that runs.
StretchInProgress ==
    \/ \E j \in Jobs : hmd[j].pc = "decoding"
    \/ wpc = "loop"
    \/ wState \in {"loading", "ready"} /\ wInbox # <<>>

\* C25: no TTS request is started while another TTS request or a stretch
\* job is in progress, and no stretch job is started or dispatched while a
\* generation is in progress.
C25_MutualExclusion ==
    /\ [][genPc = "idle" /\ genPc' = "awaiting" => ~StretchInProgress]_vars
    /\ [][(nextJob' # nextJob \/ Len(wInbox') > Len(wInbox)
              \/ (wpc = "idle" /\ wpc' = "loop")) =>
            genPc = "idle"]_vars

\* C26: every request to /api/generate-tts gets exactly one HTTP response,
\* whatever the upstream API returns and however the upstream call fails,
\* also for an upstream error whose body has no error.message.
C26_ExactlyOneResponse ==
    /\ Len(call.responses) <= 1
    /\ call.pc \notin {"received", "upstream"} => Len(call.responses) = 1

\* C27 as stated: a request that lacks text or voice is answered with 400,
\* and a request that arrives when no API key is configured with 500, both
\* without a call to the upstream API.
C27_ValidationAsStated ==
    call.pc = "done" =>
        /\ call.text # "value" \/ call.voice # "value" =>
              call.responses = <<400>> /\ call.upstreamCalls = 0
        /\ call.apiKey = "unset" =>
              call.responses = <<500>> /\ call.upstreamCalls = 0

\* C27: a request that lacks text or voice is answered with 400, and a
\* request with text and voice that arrives when no API key is configured
\* with 500, both without a call to the upstream API.
C27_Validation ==
    call.pc = "done" =>
        /\ call.text # "value" \/ call.voice # "value" =>
              call.responses = <<400>> /\ call.upstreamCalls = 0
        /\ call.text = "value" /\ call.voice = "value" /\ call.apiKey = "unset" =>
              call.responses = <<500>> /\ call.upstreamCalls = 0

\* A request with text and voice that arrived with no API key configured
\* was answered with 500 and nothing was sent upstream.
C27_Witness ==
    /\ call.fn = "generate-tts"
    /\ call.pc = "done"
    /\ call.text = "value"
    /\ call.voice = "value"
    /\ call.apiKey = "unset"
    /\ call.responses = <<500>>
    /\ call.upstreamCalls = 0

====
